---- MODULE Spec2Model ----
(***************************************************************************)
(* Model of packages/nerovaagent/bin/nerovaagent.js: the command           *)
(* dispatcher (main), the option resolver (parseArgs, handleStart), the    *)
(* daemon gate (requireAgentDaemon), the runtime calls and the run-result  *)
(* renderer (renderRunResult).                                             *)
(*                                                                         *)
(* A JavaScript string is a sequence of atoms: an atom is either the       *)
(* blank " " or a chunk of non-blank text ("a", "start", "--prompt").      *)
(* The empty string is <<>>.  trim() strips blanks at both ends and        *)
(* join(' ') puts the blank atom between the joined strings.               *)
(***************************************************************************)
EXTENDS Naturals, Sequences, FiniteSets

VARIABLES
  args,          \* process.argv.slice(2)
  pc,            \* where the invocation stands
  handler,       \* the branch of main's switch that was taken
  options,       \* parseArgs(args.slice(1))
  payload,       \* handleStart's `payload`, once built
  requests,      \* the calls made to client.request, in order
  inflight,      \* requests issued and not yet settled
  settled,       \* how each request settled, with its result
  reads,         \* the readFileSync calls made, with their outcome
  probes,        \* the answers of isAgentDaemonRunning()
  ensures,       \* whether each start of the daemon succeeded:
                 \* ensureAgentDaemon(), or the import of the daemon module
  stdout,        \* lines written with console.log
  stderr,        \* lines written with console.error
  exitCode       \* process.exitCode, and the code process.exit was given

vars == <<args, pc, handler, options, payload, requests, inflight, settled,
          reads, probes, ensures, stdout, stderr, exitCode>>

----------------------------------------------------------------------------
(* Bounds of the explored inputs.                                          *)

\* tokens after the command, any command, full token alphabet
MaxTail == 2
\* tokens after `start`, prompt-related token alphabet
MaxStartTail == 4
\* entries of a rendered timeline
MaxTimeline == 2

----------------------------------------------------------------------------
(* JavaScript values.                                                      *)

SP == " "
Undefined == <<"<undefined>">>
Null == <<"<null>">>
Empty == <<>>

\* ToBoolean of a string-or-undefined value
Truthy(v) == v # Undefined /\ v # Null /\ v # Empty

\* a || b
JsOr(a, b) == IF Truthy(a) THEN a ELSE b

RECURSIVE TrimStart(_)
TrimStart(s) == IF s # <<>> /\ Head(s) = SP THEN TrimStart(Tail(s)) ELSE s

RECURSIVE TrimEnd(_)
TrimEnd(s) ==
  IF s # <<>> /\ s[Len(s)] = SP THEN TrimEnd(SubSeq(s, 1, Len(s) - 1)) ELSE s

\* String.prototype.trim
Trim(s) == TrimEnd(TrimStart(s))

\* Array.prototype.join(' ')
RECURSIVE Join(_)
Join(list) ==
  IF list = <<>> THEN <<>>
  ELSE IF Len(list) = 1 THEN list[1]
  ELSE list[1] \o <<SP>> \o Join(Tail(list))

SeqsUpTo(S, n) == UNION {[1..k -> S] : k \in 0..n}

----------------------------------------------------------------------------
(* parseArgs                                                               *)

FlagNames ==
  {"--prompt-file", "--prompt", "--context", "--context-file",
   "--critic-key", "--assistant-key", "--assistant-id"}

FlagTokens == {<<f>> : f \in FlagNames}

\* the property of `out` each flag assigns
FlagField(token) ==
  CASE token = <<"--prompt-file">>   -> "promptFile"
    [] token = <<"--prompt">>        -> "prompt"
    [] token = <<"--context">>       -> "context"
    [] token = <<"--context-file">>  -> "contextFile"
    [] token = <<"--critic-key">>    -> "criticKey"
    [] token = <<"--assistant-key">> -> "assistantKey"
    [] token = <<"--assistant-id">>  -> "assistantId"

\* const out = { _: [] }
EmptyOptions ==
  [positional |-> <<>>, promptFile |-> Undefined, prompt |-> Undefined,
   context |-> Undefined, contextFile |-> Undefined, criticKey |-> Undefined,
   assistantKey |-> Undefined, assistantId |-> Undefined]

\* const next = argv[i + 1]
NextToken(argv, i) == IF i + 1 <= Len(argv) THEN argv[i + 1] ELSE Undefined

\* the guard shared by the seven ifs: token === '--flag' && next
Consumes(token, next) == token \in FlagTokens /\ Truthy(next)

RECURSIVE parseLoop(_, _, _)
parseLoop(argv, i, out) ==
  IF i > Len(argv) THEN out
  ELSE LET token == argv[i]
           next == NextToken(argv, i)
       IN IF Consumes(token, next)
          THEN parseLoop(argv, i + 2, [out EXCEPT ![FlagField(token)] = next])
          ELSE parseLoop(argv, i + 1,
                         [out EXCEPT !.positional = Append(@, token)])

parseArgs(argv) == parseLoop(argv, 1, EmptyOptions)

----------------------------------------------------------------------------
(* Collaborators' answers and the lines the program prints.                *)

Absent == "<absent>"

\* ToBoolean of an optional string field of a response
Present(v) == v # Absent /\ v # ""

Line(kind, idx, text, note) ==
  [kind |-> kind, idx |-> idx, text |-> text, note |-> note]

\* readFileSync either throws or returns the file's text
FileError == [ok |-> FALSE, content |-> <<>>]
FileContents == {<<>>, <<SP>>, <<SP, "c", SP>>}
FileOutcomes == {FileError} \cup {[ok |-> TRUE, content |-> c] : c \in FileContents}

\* process.env: the three override variables all unset, or all set
EnvSamples ==
  {[criticKey |-> Undefined, assistantKey |-> Undefined, assistantId |-> Undefined],
   [criticKey |-> <<"ek">>, assistantKey |-> <<"ek">>, assistantId |-> <<"ek">>]}

\* One timeline entry.  `result || {}` makes an absent result the same as
\* a result with every field absent; `label` is the target label of lines
\* 180-184 (empty when there is no target or no hint text); `clicked` and
\* `assistant` say whether the field holds an object.
Nexts == {Absent, "", "continue", "stop"}
Reasons == {Absent, "why"}
Entries ==
  [next : Nexts, reason : Reasons, clicked : BOOLEAN,
   label : {"", "OK | Cancel"}, assistant : BOOLEAN]

\* the entries explored: reason, target label and assistant all there or
\* all absent
EntrySamples ==
  {e \in Entries : /\ (e.label # "") = e.assistant
                   /\ (e.reason # Absent) = e.assistant}

Statuses == {Absent, "", "completed", "failed"}
Oks == {Absent, "true", "false"}

\* a response that is not an object (null, a string, a number)
NonObjectRun ==
  [isObject |-> FALSE, status |-> Absent, ok |-> Absent, isArray |-> FALSE,
   timeline |-> <<>>, history |-> FALSE]

\* `isArray`: whether run.timeline is an array; `history`: whether
\* run.completeHistory is a non-empty array
ObjectRuns(timelines) ==
  [isObject : {TRUE}, status : Statuses, ok : Oks, isArray : {TRUE},
   timeline : timelines, history : BOOLEAN]
  \cup [isObject : {TRUE}, status : Statuses, ok : Oks, isArray : {FALSE},
        timeline : {<<>>}, history : BOOLEAN]

RunResults == {NonObjectRun} \cup ObjectRuns(SeqsUpTo(EntrySamples, MaxTimeline))

SampleEntry ==
  [next |-> "stop", reason |-> "why", clicked |-> TRUE, label |-> "",
   assistant |-> FALSE]

\* the responses /run/start gives in the whole-program specification
RunSamples ==
  {NonObjectRun,
   [isObject |-> TRUE, status |-> Absent, ok |-> "true", isArray |-> FALSE,
    timeline |-> <<>>, history |-> FALSE],
   [isObject |-> TRUE, status |-> "failed", ok |-> Absent, isArray |-> TRUE,
    timeline |-> <<>>, history |-> FALSE],
   [isObject |-> TRUE, status |-> "completed", ok |-> Absent, isArray |-> TRUE,
    timeline |-> <<SampleEntry>>, history |-> TRUE],
   [isObject |-> TRUE, status |-> "", ok |-> "false", isArray |-> TRUE,
    timeline |-> <<SampleEntry>>, history |-> FALSE]}

----------------------------------------------------------------------------
(* renderRunResult                                                         *)

\* Variant: `status` taken whenever the field is there, the empty string
\* included (run.status ?? ...).
EffectiveStatusStrict(run) ==
  IF run.status # Absent THEN run.status
  ELSE IF run.ok = "true" THEN "completed" ELSE "unknown"

\* const status = run.status || (run.ok ? 'completed' : 'unknown')
EffectiveStatus(run) ==
  IF Present(run.status) THEN run.status
  ELSE IF run.ok = "true" THEN "completed" ELSE "unknown"

\* Variant: the clicked line on an `if` of its own instead of `else if`.
ResultLinesBoth(entry, k) ==
  (IF Present(entry.next) /\ entry.next # "continue"
   THEN <<Line("result", k, entry.next,
               IF Present(entry.reason) THEN entry.reason ELSE "")>>
   ELSE <<>>)
  \o (IF entry.clicked THEN <<Line("clicked", k, "", "")>> ELSE <<>>)

\* the if / else if on entry.result
ResultLines(entry, k) ==
  IF Present(entry.next) /\ entry.next # "continue"
  THEN <<Line("result", k, entry.next,
              IF Present(entry.reason) THEN entry.reason ELSE "")>>
  ELSE IF entry.clicked THEN <<Line("clicked", k, "", "")>> ELSE <<>>

\* the body of `for (const entry of timeline)`
EntryLines(entry, k) ==
  <<Line("step", k, "", "")>>
  \o (IF entry.label # "" THEN <<Line("target", k, entry.label, "")>> ELSE <<>>)
  \o ResultLines(entry, k)
  \o (IF entry.assistant THEN <<Line("assistant", k, "", "")>> ELSE <<>>)

RECURSIVE TimelineLines(_, _)
TimelineLines(timeline, k) ==
  IF k > Len(timeline) THEN <<>>
  ELSE EntryLines(timeline[k], k) \o TimelineLines(timeline, k + 1)

\* const successStatuses = new Set(['completed'])
successStatuses == {"completed"}

\* what renderRunResult prints, and whether it sets process.exitCode = 1
renderRunResult(run) ==
  IF ~run.isObject
  THEN [out |-> <<Line("agent_response", 0, "", "")>>, err |-> <<>>,
        fails |-> FALSE]
  ELSE LET status == EffectiveStatus(run)
           timeline == IF run.isArray THEN run.timeline ELSE <<>>
       IN [out |-> <<Line("summary", 0, status, "")>>
                   \o (IF Len(timeline) = 0
                       THEN <<Line("timeline_empty", 0, "", "")>> ELSE <<>>)
                   \o TimelineLines(timeline, 1)
                   \o (IF run.history
                       THEN <<Line("complete_history", 0, "", "")>> ELSE <<>>),
           err |-> IF status \notin successStatuses
                   THEN <<Line("run_finished", 0, status, "")>> ELSE <<>>,
           fails |-> status \notin successStatuses]

----------------------------------------------------------------------------
(* handleStart, lines 99-122: prompt, context notes and payload            *)

\* the condition under which line 101 reads the prompt file
ReadsPromptFile(opts) == ~Truthy(opts.prompt) /\ Truthy(opts.promptFile)

\* Variant: the positional tokens tried before the prompt file.
StartPromptPositionalFirst(opts, file) ==
  LET p0 == opts.prompt
      p1 == IF ~Truthy(p0) /\ Len(opts.positional) > 0
            THEN Join(opts.positional) ELSE p0
  IN IF ~Truthy(p1) /\ Truthy(opts.promptFile) THEN file ELSE p1

\* `prompt` when line 106 tests it; `file` is what the prompt file held
StartPrompt(opts, file) ==
  LET p0 == opts.prompt
      p1 == IF ~Truthy(p0) /\ Truthy(opts.promptFile) THEN file ELSE p0
  IN IF ~Truthy(p1) /\ Len(opts.positional) > 0
     THEN Join(opts.positional) ELSE p1

\* Variant: the test without the trim.
MissingPromptNoTrim(p) == ~Truthy(p)

\* !prompt || !prompt.trim()
MissingPrompt(p) == ~Truthy(p) \/ ~Truthy(Trim(p))

\* the condition under which line 113 reads the context file
ReadsContextFile(opts) ==
  ~Truthy(JsOr(opts.context, Empty)) /\ Truthy(opts.contextFile)

\* `contextNotes` when the payload is built
StartContext(opts, file) ==
  LET c0 == JsOr(opts.context, Empty)
  IN IF ~Truthy(c0) /\ Truthy(opts.contextFile) THEN file ELSE c0

\* const payload = { ... }
Payload(opts, p, notes, env) ==
  [prompt |-> Trim(p),
   contextNotes |-> IF Truthy(notes) THEN Trim(notes) ELSE Empty,
   criticKey |-> JsOr(JsOr(opts.criticKey, env.criticKey), Null),
   assistantKey |-> JsOr(JsOr(opts.assistantKey, env.assistantKey), Null),
   assistantId |-> JsOr(JsOr(opts.assistantId, env.assistantId), Null)]

\* the record of one loadFileSafe call
ReadOf(purpose, path, outcome) ==
  [purpose |-> purpose, path |-> path, ok |-> outcome.ok,
   content |-> outcome.content]

----------------------------------------------------------------------------
(* main: the switch on args[0]                                             *)

\* Variant: the command taken from the parsed positional tokens.
commandTokenPositional(a) ==
  IF parseArgs(a).positional = <<>> THEN Undefined
  ELSE parseArgs(a).positional[1]

\* args[0]
commandToken(a) == IF Len(a) = 0 THEN Undefined ELSE a[1]

\* args.slice(1)
Slice1(a) == IF Len(a) = 0 THEN <<>> ELSE Tail(a)

\* Variant: the switch without the case labels '--help' and '-h'.
commandOfNoDashHelp(token) ==
  CASE token = <<"agent-daemon">>      -> "agentDaemon"
    [] token = <<"activate">>          -> "handleActivate"
    [] token = <<"playwright-launch">> -> "handlePlaywrightLaunch"
    [] token = <<"start">>             -> "handleStart"
    [] token = <<"status">>            -> "handleStatus"
    [] token = <<"help">>              -> "printHelp"
    [] token = Undefined               -> "handleActivate"
    [] OTHER                           -> "unknown"

\* the case labels of the switch, by the handler each one runs
commandOf(token) ==
  CASE token = <<"agent-daemon">>      -> "agentDaemon"
    [] token = <<"activate">>          -> "handleActivate"
    [] token = <<"playwright-launch">> -> "handlePlaywrightLaunch"
    [] token = <<"start">>             -> "handleStart"
    [] token = <<"status">>            -> "handleStatus"
    [] token = <<"help">>              -> "printHelp"
    [] token = Undefined               -> "handleActivate"
    [] token = <<"--help">>            -> "printHelp"
    [] token = <<"-h">>                -> "printHelp"
    [] OTHER                           -> "unknown"

\* where each handler starts
EntryPoint(h) ==
  CASE h = "agentDaemon"            -> "import"
    [] h = "handleActivate"         -> "handleActivate"
    [] h = "handlePlaywrightLaunch" -> "requireAgentDaemon"
    [] h = "handleStart"            -> "handleStart"
    [] h = "handleStatus"           -> "callRuntime"
    [] OTHER                        -> "done"

Usage == Line("usage", 0, "", "")

----------------------------------------------------------------------------
(* The invocations explored.                                               *)

ValueTokens == {<<>>, <<SP>>, <<"a">>, <<SP, "b">>}

CommandTokens ==
  {<<"agent-daemon">>, <<"activate">>, <<"playwright-launch">>, <<"start">>,
   <<"status">>, <<"help">>, <<"--help">>, <<"-h">>}

AllTokens == FlagTokens \cup ValueTokens

StartTokens ==
  {<<"--prompt">>, <<"--prompt-file">>, <<"--context">>, <<"--context-file">>,
   <<SP>>, <<"a">>}

Argvs ==
  {<<>>}
  \cup {<<c>> \o t : c \in CommandTokens \cup AllTokens,
                     t \in SeqsUpTo(AllTokens, MaxTail)}
  \cup {<<<<"start">>>> \o t : t \in SeqsUpTo(StartTokens, MaxStartTail)}
  \cup {<<f, <<"a">>, c>> : f \in FlagTokens, c \in CommandTokens}

----------------------------------------------------------------------------
(* The program.                                                            *)

Init ==
  /\ args \in Argvs
  /\ pc = "main"
  /\ handler = "none"
  /\ options = EmptyOptions
  /\ payload = <<>>
  /\ requests = <<>>
  /\ inflight = 0
  /\ settled = <<>>
  /\ reads = <<>>
  /\ probes = <<>>
  /\ ensures = <<>>
  /\ stdout = <<>>
  /\ stderr = <<>>
  /\ exitCode = 0

\* main, lines 212-245: parse, then switch on args[0]
main ==
  /\ pc = "main"
  /\ options' = parseArgs(Slice1(args))
  /\ LET h == commandOf(commandToken(args))
     IN /\ handler' = h
        /\ pc' = EntryPoint(h)
        /\ stdout' = IF h \in {"printHelp", "unknown"} THEN <<Usage>> ELSE stdout
        /\ stderr' = IF h = "unknown"
                     THEN <<Line("unknown_command", 0, "", "")>> ELSE stderr
        /\ exitCode' = IF h = "unknown" THEN 1 ELSE exitCode
  /\ UNCHANGED <<args, payload, requests, inflight, settled, reads, probes,
                 ensures>>

\* handleActivate, lines 81-90
handleActivate ==
  /\ pc = "handleActivate"
  /\ \E started \in BOOLEAN :
       /\ ensures' = Append(ensures, started)
       /\ IF started
          THEN /\ stdout' = stdout \o <<Line("daemon_running", 0, "", ""),
                                        Line("daemon_hint", 0, "", "")>>
               /\ UNCHANGED <<stderr, exitCode>>
          ELSE /\ stderr' = Append(stderr, Line("activate_failed", 0, "", ""))
               /\ exitCode' = 1
               /\ UNCHANGED stdout
  /\ pc' = "done"
  /\ UNCHANGED <<args, handler, options, payload, requests, inflight, settled,
                 reads, probes>>

\* case 'agent-daemon', lines 215-217, and main().catch, lines 247-250:
\* the import either loads the daemon or rejects
importAgentDaemon ==
  /\ pc = "import"
  /\ \E loaded \in BOOLEAN :
       /\ ensures' = Append(ensures, loaded)
       /\ IF loaded
          THEN UNCHANGED <<stderr, exitCode>>
          ELSE /\ stderr' = Append(stderr, Line("uncaught", 0, "", ""))
               /\ exitCode' = 1
  /\ pc' = "done"
  /\ UNCHANGED <<args, handler, options, payload, requests, inflight, settled,
                 reads, probes, stdout>>

\* handleStart, lines 99-122, with loadFileSafe, lines 71-79
handleStart ==
  /\ pc = "handleStart"
  /\ \E pf \in FileOutcomes, cf \in FileOutcomes, env \in EnvSamples :
       LET readP == ReadsPromptFile(options)
           readsP == IF readP
                     THEN <<ReadOf("prompt", options.promptFile, pf)>> ELSE <<>>
           p == StartPrompt(options, pf.content)
           readC == ReadsContextFile(options)
           readsC == IF readC
                     THEN <<ReadOf("context", options.contextFile, cf)>> ELSE <<>>
           notes == StartContext(options, cf.content)
       IN IF readP /\ ~pf.ok
          THEN /\ reads' = reads \o readsP
               /\ stderr' = Append(stderr, Line("read_failed", 0, "prompt", ""))
               /\ exitCode' = 1
               /\ pc' = "done"
               /\ UNCHANGED payload
          ELSE IF MissingPrompt(p)
          THEN /\ reads' = reads \o readsP
               /\ stderr' = Append(stderr, Line("prompt_required", 0, "", ""))
               /\ exitCode' = 1
               /\ pc' = "done"
               /\ UNCHANGED payload
          ELSE IF readC /\ ~cf.ok
          THEN /\ reads' = reads \o readsP \o readsC
               /\ stderr' = Append(stderr, Line("read_failed", 0, "context", ""))
               /\ exitCode' = 1
               /\ pc' = "done"
               /\ UNCHANGED payload
          ELSE /\ reads' = reads \o readsP \o readsC
               /\ payload' = <<Payload(options, p, notes, env)>>
               /\ pc' = "requireAgentDaemon"
               /\ UNCHANGED <<stderr, exitCode>>
  /\ UNCHANGED <<args, handler, options, requests, inflight, settled, probes,
                 ensures, stdout>>

\* Variant: the gate prints its message and lets the caller go on.
requireAgentDaemonLenient ==
  /\ pc = "requireAgentDaemon"
  /\ \E running \in BOOLEAN :
       /\ probes' = Append(probes, running)
       /\ stderr' = IF running THEN stderr
                    ELSE Append(stderr, Line("no_daemon", 0, "", ""))
  /\ pc' = "callRuntime"
  /\ UNCHANGED <<args, handler, options, payload, requests, inflight, settled,
                 reads, ensures, stdout, exitCode>>

\* requireAgentDaemon, lines 92-96
requireAgentDaemon ==
  /\ pc = "requireAgentDaemon"
  /\ \E running \in BOOLEAN :
       /\ probes' = Append(probes, running)
       /\ IF running
          THEN /\ pc' = "callRuntime"
               /\ UNCHANGED <<stderr, exitCode>>
          ELSE /\ stderr' = Append(stderr, Line("no_daemon", 0, "", ""))
               /\ exitCode' = 1
               /\ pc' = "done"
  /\ UNCHANGED <<args, handler, options, payload, requests, inflight, settled,
                 reads, ensures, stdout>>

\* the arguments each handler gives callRuntime
RequestOf(h, body) ==
  CASE h = "handleStart" ->
         [path |-> "/run/start", method |-> "POST", body |-> body]
    [] h = "handlePlaywrightLaunch" ->
         [path |-> "/runtime/playwright/launch", method |-> "POST", body |-> <<>>]
    [] OTHER ->
         [path |-> "/healthz", method |-> "GET", body |-> <<>>]

\* Variant: the request sent a second time without awaiting the first.
callRuntimePipelined ==
  /\ pc = "callRuntime"
  /\ requests' = requests \o <<RequestOf(handler, payload),
                                RequestOf(handler, payload)>>
  /\ inflight' = inflight + 2
  /\ pc' = "await"
  /\ UNCHANGED <<args, handler, options, payload, settled, reads, probes,
                 ensures, stdout, stderr, exitCode>>

\* callRuntime, lines 67-69: client.request is called
callRuntime ==
  /\ pc = "callRuntime"
  /\ requests' = Append(requests, RequestOf(handler, payload))
  /\ inflight' = inflight + 1
  /\ pc' = "await"
  /\ UNCHANGED <<args, handler, options, payload, settled, reads, probes,
                 ensures, stdout, stderr, exitCode>>

\* the promise client.request returned resolves
requestResolves ==
  /\ pc = "await"
  /\ \E run \in RunSamples :
       settled' = Append(settled, [ok |-> TRUE, result |-> <<run>>, data |-> FALSE])
  /\ inflight' = inflight - 1
  /\ pc' = "resolved"
  /\ UNCHANGED <<args, handler, options, payload, requests, reads, probes,
                 ensures, stdout, stderr, exitCode>>

\* the promise client.request returned rejects; err.data may be there
requestRejects ==
  /\ pc = "await"
  /\ \E data \in BOOLEAN :
       settled' = Append(settled, [ok |-> FALSE, result |-> <<>>, data |-> data])
  /\ inflight' = inflight - 1
  /\ pc' = "rejected"
  /\ UNCHANGED <<args, handler, options, payload, requests, reads, probes,
                 ensures, stdout, stderr, exitCode>>

\* handleStart, line 128: renderRunResult(result)
handleStartThen ==
  /\ pc = "resolved"
  /\ handler = "handleStart"
  /\ LET r == renderRunResult(settled[Len(settled)].result[1])
     IN /\ stdout' = stdout \o r.out
        /\ stderr' = stderr \o r.err
        /\ exitCode' = IF r.fails THEN 1 ELSE exitCode
  /\ pc' = "done"
  /\ UNCHANGED <<args, handler, options, payload, requests, inflight, settled,
                 reads, probes, ensures>>

\* handlePlaywrightLaunch line 142, handleStatus line 155
printResult ==
  /\ pc = "resolved"
  /\ handler \in {"handlePlaywrightLaunch", "handleStatus"}
  /\ stdout' = Append(stdout,
                      Line(IF handler = "handleStatus"
                           THEN "runtime_status" ELSE "playwright_ready",
                           0, "", ""))
  /\ pc' = "done"
  /\ UNCHANGED <<args, handler, options, payload, requests, inflight, settled,
                 reads, probes, ensures, stderr, exitCode>>

\* the diagnostic each handler's catch prints first
CatchLine(h) ==
  CASE h = "handleStart"            -> "start_failed"
    [] h = "handlePlaywrightLaunch" -> "launch_failed"
    [] OTHER                        -> "not_reachable"

\* Variant: the catch blocks report the failure and return.
catchRequestSwallow ==
  /\ pc = "rejected"
  /\ stderr' = Append(stderr, Line(CatchLine(handler), 0, "", ""))
  /\ pc' = "done"
  /\ UNCHANGED <<args, handler, options, payload, requests, inflight, settled,
                 reads, probes, ensures, stdout, exitCode>>

\* the catch blocks, lines 129-135, 143-149 and 156-159
catchRequest ==
  /\ pc = "rejected"
  /\ stderr' = stderr
               \o <<Line(CatchLine(handler), 0, "", "")>>
               \o (IF handler # "handleStatus" /\ settled[Len(settled)].data
                   THEN <<Line("runtime_response", 0, "", "")>> ELSE <<>>)
  /\ exitCode' = 1
  /\ pc' = "done"
  /\ UNCHANGED <<args, handler, options, payload, requests, inflight, settled,
                 reads, probes, ensures, stdout>>

Next ==
  \/ main
  \/ handleActivate
  \/ importAgentDaemon
  \/ handleStart
  \/ requireAgentDaemon
  \/ callRuntime
  \/ requestResolves
  \/ requestRejects
  \/ handleStartThen
  \/ printResult
  \/ catchRequest

Spec == Init /\ [][Next]_vars

----------------------------------------------------------------------------
(* renderRunResult on its own: every response up to the bounds, handed to  *)
(* the continuation of handleStart's request.                              *)

RenderPayload ==
  [prompt |-> <<"a">>, contextNotes |-> Empty, criticKey |-> Null,
   assistantKey |-> Null, assistantId |-> Null]

InitRender ==
  /\ args = <<<<"start">>, <<"a">>>>
  /\ pc = "resolved"
  /\ handler = "handleStart"
  /\ options = parseArgs(<<<<"a">>>>)
  /\ payload = <<RenderPayload>>
  /\ requests = <<RequestOf("handleStart", <<RenderPayload>>)>>
  /\ inflight = 0
  /\ \E run \in RunResults :
       settled = <<[ok |-> TRUE, result |-> <<run>>, data |-> FALSE]>>
  /\ reads = <<>>
  /\ probes = <<TRUE>>
  /\ ensures = <<>>
  /\ stdout = <<>>
  /\ stderr = <<>>
  /\ exitCode = 0

SpecRender == InitRender /\ [][handleStartThen]_vars

----------------------------------------------------------------------------
(* Properties.                                                             *)

\* the response handed to renderRunResult, once the request resolved
Rendered ==
  /\ pc = "done"
  /\ handler = "handleStart"
  /\ settled # <<>>
  /\ settled[1].ok

TheRun == settled[1].result[1]

HasLine(stream, kind, k) ==
  \E i \in 1..Len(stream) : stream[i].kind = kind /\ stream[i].idx = k

\* the text of the prompt file, when it was read
PromptFileText ==
  IF \E i \in 1..Len(reads) : reads[i].purpose = "prompt" /\ reads[i].ok
  THEN reads[CHOOSE i \in 1..Len(reads) :
               reads[i].purpose = "prompt" /\ reads[i].ok].content
  ELSE Undefined

NonEmpty(v) == v # Undefined /\ v # <<>>

\* the prompt by the documented precedence: --prompt, then the prompt
\* file, then the positional tokens joined by one blank
ResolvedPrompt ==
  IF NonEmpty(options.prompt) THEN options.prompt
  ELSE IF NonEmpty(PromptFileText) THEN PromptFileText
  ELSE Join(options.positional)

\* handleStart got as far as resolving a prompt
PromptResolved ==
  /\ handler = "handleStart"
  /\ pc \notin {"main", "handleStart"}
  /\ \A i \in 1..Len(reads) : reads[i].purpose = "prompt" => reads[i].ok

\* C1: in `start` and `playwright-launch`, once isAgentDaemonRunning() has
\* answered false the invocation is over with exit code 1 and
\* client.request has not been called.
C1_GateBlocksRequest ==
  (/\ handler \in {"handleStart", "handlePlaywrightLaunch"}
   /\ \E i \in 1..Len(probes) : ~probes[i])
  => (pc = "done" /\ exitCode = 1 /\ requests = <<>> /\ inflight = 0)

C1_Witness ==
  /\ handler = "handleStart"
  /\ payload # <<>>
  /\ probes = <<FALSE>>
  /\ pc = "done"

\* C2: a `start` whose resolved prompt (from --prompt, the prompt file or
\* the positional tokens) is empty or all blanks ends with the
\* missing-prompt message alone on the error stream and exit code 1, and no
\* request is issued.
C2_BlankPromptFails ==
  (PromptResolved /\ Trim(ResolvedPrompt) = <<>>)
  => (/\ pc = "done"
      /\ exitCode = 1
      /\ stderr = <<Line("prompt_required", 0, "", "")>>
      /\ requests = <<>>
      /\ inflight = 0)

C2_Witness ==
  /\ handler = "handleStart"
  /\ pc = "done"
  /\ Len(reads) = 1
  /\ reads[1].ok
  /\ reads[1].content = <<SP>>
  /\ options.positional # <<>>
  /\ HasLine(stderr, "prompt_required", 0)

\* the fatal conditions, read off what the collaborators answered
UnknownCommand == args # <<>> /\ args[1] \notin CommandTokens
FileUnreadable == \E i \in 1..Len(reads) : ~reads[i].ok
PromptMissing == PromptResolved /\ Trim(ResolvedPrompt) = <<>>
DaemonNotRunning == \E i \in 1..Len(probes) : ~probes[i]
DaemonStartFailed == \E i \in 1..Len(ensures) : ~ensures[i]
RequestFailed == \E i \in 1..Len(settled) : ~settled[i].ok
RunNotCompleted ==
  /\ Rendered
  /\ TheRun.isObject
  /\ ~ \/ TheRun.status = "completed"
       \/ TheRun.status \in {Absent, ""} /\ TheRun.ok = "true"

Fatal ==
  \/ UnknownCommand
  \/ FileUnreadable
  \/ PromptMissing
  \/ DaemonNotRunning
  \/ DaemonStartFailed
  \/ RequestFailed
  \/ RunNotCompleted

RECURSIVE ClaimedPositional(_)
ClaimedPositional(argv) ==
  IF argv = <<>> THEN <<>>
  ELSE IF Head(argv) \in FlagTokens /\ Len(argv) >= 2
  THEN ClaimedPositional(Tail(Tail(argv)))
  ELSE <<Head(argv)>> \o ClaimedPositional(Tail(argv))

\* C4: scanning left to right, a recognized flag followed by a token is
\* consumed with that token (neither becomes positional), a recognized flag
\* that is the last token becomes positional, and the other tokens become
\* positional in their order.
C4_FlagPairsConsumed ==
  pc # "main" => options.positional = ClaimedPositional(Slice1(args))

\* C5: the prompt of the request `start` issues is the trimmed value of the
\* first non-empty source among --prompt, the prompt file and the joined
\* positional tokens, and the prompt file is not read when --prompt is given.
C5_PromptPrecedence ==
  (handler = "handleStart" /\ requests # <<>>)
  => /\ requests[1].body # <<>>
     /\ requests[1].body[1].prompt = Trim(ResolvedPrompt)
     /\ NonEmpty(options.prompt)
          => \A i \in 1..Len(reads) : reads[i].purpose # "prompt"
     /\ (\E i \in 1..Len(reads) : reads[i].purpose = "prompt")
          => ~NonEmpty(options.prompt)

C5_Witness ==
  /\ handler = "handleStart"
  /\ requests # <<>>
  /\ NonEmpty(options.prompt)
  /\ NonEmpty(options.promptFile)

C5_WitnessFile ==
  /\ handler = "handleStart"
  /\ requests # <<>>
  /\ NonEmpty(PromptFileText)
  /\ options.positional # <<>>

\* the effective status as the claim words it: `status` if present
StatusIfPresent(run) ==
  IF run.status # Absent THEN run.status
  ELSE IF run.ok = "true" THEN "completed" ELSE "unknown"

\* the effective status with an empty `status` counted as absent
StatusIfNonEmpty(run) ==
  IF run.status \notin {Absent, ""} THEN run.status
  ELSE IF run.ok = "true" THEN "completed" ELSE "unknown"

\* C6 as stated: the summary shows `status` if present, else "completed"
\* if ok, else "unknown", and the exit code is non-zero with the
\* run-finished message exactly when that status is not "completed".
C6_StatusIfPresent ==
  (Rendered /\ TheRun.isObject)
  => /\ stdout[1] = Line("summary", 0, StatusIfPresent(TheRun), "")
     /\ (exitCode # 0) = (StatusIfPresent(TheRun) # "completed")
     /\ HasLine(stderr, "run_finished", 0)
          = (StatusIfPresent(TheRun) # "completed")

\* C6 amended: the same with `status` used only when it is present and not
\* the empty string; an empty timeline prints the empty-timeline marker.
C6_StatusIfNonEmpty ==
  (Rendered /\ TheRun.isObject)
  => /\ stdout[1] = Line("summary", 0, StatusIfNonEmpty(TheRun), "")
     /\ (exitCode # 0) = (StatusIfNonEmpty(TheRun) # "completed")
     /\ HasLine(stderr, "run_finished", 0)
          = (StatusIfNonEmpty(TheRun) # "completed")
     /\ HasLine(stdout, "timeline_empty", 0) = (TheRun.timeline = <<>>)

C6_Witness ==
  /\ Rendered
  /\ TheRun.isObject
  /\ TheRun.status = "failed"
  /\ TheRun.isArray
  /\ TheRun.timeline = <<>>
  /\ HasLine(stdout, "timeline_empty", 0)
  /\ exitCode = 1

C6_WitnessEmptyStatus ==
  /\ Rendered
  /\ TheRun.isObject
  /\ TheRun.status = ""
  /\ TheRun.ok = "true"
  /\ exitCode = 0

\* C7 as stated: for each entry, a result line exactly when `next` is
\* present and is not "continue"; otherwise a clicked line exactly when
\* `clicked` is present; never both.
C7_NextPresent ==
  (Rendered /\ TheRun.isObject)
  => \A k \in 1..Len(TheRun.timeline) :
       LET e == TheRun.timeline[k]
           wantsResult == e.next # Absent /\ e.next # "continue"
       IN /\ HasLine(stdout, "result", k) = wantsResult
          /\ HasLine(stdout, "clicked", k) = (~wantsResult /\ e.clicked)

\* C7 amended: the same with a result line exactly when `next` is present,
\* not the empty string and not "continue".
C7_NextNonEmpty ==
  (Rendered /\ TheRun.isObject)
  => \A k \in 1..Len(TheRun.timeline) :
       LET e == TheRun.timeline[k]
           wantsResult == e.next \notin {Absent, "", "continue"}
       IN /\ HasLine(stdout, "result", k) = wantsResult
          /\ HasLine(stdout, "clicked", k) = (~wantsResult /\ e.clicked)
          /\ ~(HasLine(stdout, "result", k) /\ HasLine(stdout, "clicked", k))

C7_Witness ==
  /\ Rendered
  /\ TheRun.isObject
  /\ Len(TheRun.timeline) = 2
  /\ TheRun.timeline[1].next = "continue"
  /\ TheRun.timeline[1].reason = "why"
  /\ TheRun.timeline[1].clicked
  /\ HasLine(stdout, "clicked", 1)
  /\ TheRun.timeline[2].next = "stop"
  /\ TheRun.timeline[2].clicked
  /\ HasLine(stdout, "result", 2)

HelpTokens == {<<"help">>, <<"--help">>, <<"-h">>}

\* C8: `help`, `--help`, `-h` and every unknown command print the usage
\* text; the help commands end with exit code 0 and the unknown command
\* with exit code 1; none of them probes or starts the daemon or issues a
\* request.
C8_HelpAndUnknown ==
  (pc # "main" /\ args # <<>>
   /\ (args[1] \in HelpTokens \/ args[1] \notin CommandTokens))
  => /\ pc = "done"
     /\ stdout = <<Usage>>
     /\ exitCode = (IF args[1] \in HelpTokens THEN 0 ELSE 1)
     /\ args[1] \in HelpTokens => stderr = <<>>
     /\ probes = <<>>
     /\ ensures = <<>>
     /\ requests = <<>>

C8_Witness ==
  /\ pc = "done"
  /\ args # <<>>
  /\ args[1] = <<"-h">>
  /\ stdout = <<Usage>>

\* the handler the command list gives each command word
HandlerFor(token) ==
  IF token \in {Undefined, <<"activate">>} THEN "handleActivate"
  ELSE IF token = <<"agent-daemon">> THEN "agentDaemon"
  ELSE IF token = <<"playwright-launch">> THEN "handlePlaywrightLaunch"
  ELSE IF token = <<"start">> THEN "handleStart"
  ELSE IF token = <<"status">> THEN "handleStatus"
  ELSE IF token \in HelpTokens THEN "printHelp"
  ELSE "unknown"

\* the first token left once the flag/value pairs of the whole invocation
\* are consumed
FirstPositional ==
  IF parseArgs(args).positional = <<>> THEN Undefined
  ELSE parseArgs(args).positional[1]

\* C9 as stated: the command run is looked up from the first positional
\* token of the invocation (flag/value pairs consumed first), and the
\* activation flow runs when there is no positional token.
C9_FirstPositional ==
  pc # "main" => handler = HandlerFor(FirstPositional)

\* C9 amended: the command run is looked up from the first token of the
\* invocation as it stands, flag or not, and the activation flow runs when
\* there is no token; flags are parsed from the tokens after the first.
C9_FirstToken ==
  pc # "main"
  => /\ handler = HandlerFor(IF args = <<>> THEN Undefined ELSE args[1])
     /\ options = parseArgs(IF args = <<>> THEN <<>> ELSE Tail(args))

C9_Witness ==
  /\ pc = "done"
  /\ args = <<<<"--prompt">>, <<"a">>, <<"start">>>>
  /\ handler = "unknown"
  /\ options.positional = <<<<"a">>, <<"start">>>>

\* at most one request, at most one in flight, and a gated handler's
\* request only after the probe answered true
OneRequest ==
  /\ Len(requests) <= 1
  /\ inflight <= 1
  /\ (requests # <<>>
      /\ handler \in {"handleStart", "handlePlaywrightLaunch"})
       => probes = <<TRUE>>

\* a request goes out only when none was made before, and nothing is read
\* or probed from then on
RequestLast ==
  /\ Len(requests') > Len(requests)
       => /\ requests = <<>>
          /\ settled = <<>>
          /\ reads' = reads
          /\ probes' = probes
  /\ requests # <<>>
       => /\ requests' = requests
          /\ reads' = reads
          /\ probes' = probes
          /\ ensures' = ensures

\* C10: client.request is called at most once in an invocation, never
\* while a request is outstanding, never again after a failure, and only
\* after the file reads and the daemon probe of the flow are done.
C10_SingleRequest == []OneRequest /\ [][RequestLast]_vars

C10_Witness ==
  /\ pc = "done"
  /\ handler = "handleStart"
  /\ Len(requests) = 1
  /\ RequestFailed
  /\ Len(reads) = 2

====
